---- MODULE Spec2Model ----
(***************************************************************************)
(* Model of highdicom/spatial.py: the rotation basis, the planar rotation  *)
(* angle, the forward and inverse affine transforms between the pixel      *)
(* matrix and the frame of reference, and their application to points.     *)
(*                                                                         *)
(* Every function of the module is pure; the state is the last call made   *)
(* by a caller (function, arguments, outcome).                             *)
(***************************************************************************)
EXTENDS Integers, Sequences, FiniteSets, TLC

\* ------------------------------------------------------------------ bounds
MaxPos == 1        \* image positions <<-k, 2k, 3k>>, k \in 1..MaxPos
MaxSpacing == 2    \* spacings -1..MaxSpacing
MaxCoord == 1      \* pixel coordinates 0..MaxCoord, others -1..MaxCoord

\* ------------------------------------------------------- float arithmetic
\* A float is <<n, d>> with d # 0, of value n / |d|, in lowest terms.
\* Zero is <<0, 1>> (+0.0) or <<0, -1>> (-0.0): the sign of d is the sign
\* of zero.  Rounding is not modelled: all values are exact.
Abs(i) == IF i < 0 THEN -i ELSE i

RECURSIVE GCD(_, _)
GCD(a, b) == IF b = 0 THEN a ELSE GCD(b, a % b)

Norm(n, d) == LET g == GCD(Abs(n), d) IN <<n \div g, d \div g>>

Num(i) == <<i, 1>>
Frac(n, d) == Norm(n, d)
Zero == <<0, 1>>
NegZero == <<0, -1>>
One == <<1, 1>>

Sgn(x) == IF x[1] > 0 THEN 1
          ELSE IF x[1] < 0 THEN -1
          ELSE IF x[2] > 0 THEN 1 ELSE -1

IsZero(x) == x[1] = 0

\* unary minus: flips the sign bit, of zero too
Neg(x) == IF x[1] = 0 THEN <<0, -x[2]>> ELSE <<-x[1], x[2]>>

\* x * y: a zero product carries the product of the signs
Mul(x, y) ==
    IF x[1] * y[1] = 0 THEN <<0, Sgn(x) * Sgn(y)>>
    ELSE Norm(x[1] * y[1], Abs(x[2]) * Abs(y[2]))

\* x + y: a zero sum is -0.0 only when both operands are negative
Add(x, y) ==
    LET n == x[1] * Abs(y[2]) + y[1] * Abs(x[2])
    IN  IF n = 0 THEN (IF Sgn(x) < 0 /\ Sgn(y) < 0 THEN NegZero ELSE Zero)
        ELSE Norm(n, Abs(x[2]) * Abs(y[2]))

Sub(x, y) == Add(x, Neg(y))

\* x / y for y # 0
Div(x, y) ==
    IF x[1] = 0 THEN <<0, Sgn(x) * Sgn(y)>>
    ELSE Norm(Sgn(y) * x[1] * Abs(y[2]), Abs(x[2]) * Abs(y[1]))

\* comparisons by value: -0.0 == 0.0
Eq(x, y) == x[1] * Abs(y[2]) = y[1] * Abs(x[2])
Lt(x, y) == x[1] * Abs(y[2]) < y[1] * Abs(x[2])

VecEq(u, v) == Len(u) = Len(v) /\ \A i \in 1..Len(u) : Eq(u[i], v[i])

\* ------------------------------------------------------------- outcomes
Ok(v) == [kind |-> "ok", msg |-> "", value |-> v]
Raise(k, m) == [kind |-> k, msg |-> m, value |-> <<>>]
NoCall == [kind |-> "none", msg |-> "", value |-> <<>>]

\* ------------------------------------------------------- numpy primitives
\* The one element of a singleton set.  Eval({e(x) : x \in {v}}) is e(v); it
\* is written so wherever a value computed once is used many times.
Eval(S) == CHOOSE x \in S : TRUE

\* np.cross of two 3-vectors
cross(a, b) ==
    << Sub(Mul(a[2], b[3]), Mul(a[3], b[2])),
       Sub(Mul(a[3], b[1]), Mul(a[1], b[3])),
       Sub(Mul(a[1], b[2]), Mul(a[2], b[1])) >>

\* np.dot of a matrix (sequence of rows) and a vector
dot(M, v) ==
    LET p(i, j) == Mul(M[i][j], v[j])
        s(i) == IF Len(v) = 3 THEN Add(Add(p(i, 1), p(i, 2)), p(i, 3))
                ELSE Add(Add(Add(p(i, 1), p(i, 2)), p(i, 3)), p(i, 4))
    IN  IF Len(M) = 3 THEN <<s(1), s(2), s(3)>>
        ELSE <<s(1), s(2), s(3), s(4)>>

\* M[:, j] *= s, for a 3 x 3 matrix
scale_column(M, j, s) ==
    LET e(i, k) == IF k = j THEN Mul(M[i][k], s) ELSE M[i][k]
        r(i) == <<e(i, 1), e(i, 2), e(i, 3)>>
    IN  <<r(1), r(2), r(3)>>

\* determinant of a 3 x 3 matrix
det(M) ==
    Add(Sub(Mul(M[1][1], Sub(Mul(M[2][2], M[3][3]), Mul(M[2][3], M[3][2]))),
            Mul(M[1][2], Sub(Mul(M[2][1], M[3][3]), Mul(M[2][3], M[3][1])))),
        Mul(M[1][3], Sub(Mul(M[2][1], M[3][2]), Mul(M[2][2], M[3][1]))))

\* the 3 x 3 matrix without row i and column j, as a 2 x 2 determinant
minor(M, i, j) ==
    LET r1 == IF i = 1 THEN 2 ELSE 1
        r2 == IF i = 3 THEN 2 ELSE 3
        c1 == IF j = 1 THEN 2 ELSE 1
        c2 == IF j = 3 THEN 2 ELSE 3
    IN  Sub(Mul(M[r1][c1], M[r2][c2]), Mul(M[r1][c2], M[r2][c1]))

\* mutant of inv: the transpose taken for the inverse
inv_by_transpose(M) ==
    IF IsZero(det(M)) THEN Raise("LinAlgError", "Singular matrix")
    ELSE Ok(<< <<M[1][1], M[2][1], M[3][1]>>,
               <<M[1][2], M[2][2], M[3][2]>>,
               <<M[1][3], M[2][3], M[3][3]>> >>)

\* np.linalg.inv of a 3 x 3 matrix: LinAlgError("Singular matrix") when the
\* matrix is singular, the inverse (adjugate over determinant) otherwise
inv(M) ==
    Eval({ LET e(i, j) == LET c == minor(M, j, i)
                          IN  Div(IF (i + j) % 2 = 0 THEN c ELSE Neg(c), d)
               r(i) == <<e(i, 1), e(i, 2), e(i, 3)>>
           IN  IF IsZero(d) THEN Raise("LinAlgError", "Singular matrix")
               ELSE Ok(<<r(1), r(2), r(3)>>)
         : d \in {det(M)} })

\* np.row_stack([np.column_stack([L, t]), [0.0, 0.0, 0.0, 1.0]])
stack_affine(L, t) ==
    LET r(i) == <<L[i][1], L[i][2], L[i][3], t[i]>>
    IN  <<r(1), r(2), r(3), <<Zero, Zero, Zero, One>> >>

\* np.arctan2(y, x) in units of pi/4 radians, for the arguments whose angle
\* is a multiple of pi/4 (IEEE 754 / C99 rules for signed zeros)
arctan2(y, x) ==
    IF IsZero(y)
    THEN IF Sgn(x) > 0 THEN y                      \* +-0
         ELSE <<4 * Sgn(y), 1>>                    \* +-pi
    ELSE IF IsZero(x) THEN <<2 * Sgn(y), 1>>       \* +-pi/2
    ELSE CASE Eq(x, y) /\ Sgn(x) > 0 -> Num(1)
           [] Eq(x, Neg(y)) /\ Sgn(x) < 0 -> Num(3)
           [] Eq(x, Neg(y)) /\ Sgn(x) > 0 -> Num(-1)
           [] Eq(x, y) /\ Sgn(x) < 0 -> Num(-3)

\* np.degrees of an angle given in units of pi/4 radians: angle * 180 / pi
degrees(angle) == Mul(angle, Num(45))

\* --------------------------------------------------------------- spatial.py
\* mutant of create_rotation_matrix: the normal is column x row
create_rotation_matrix_reversed_normal(image_orientation) ==
    LET row_cosines == SubSeq(image_orientation, 1, 3)
        column_cosines == SubSeq(image_orientation, 4, 6)
    IN  Eval({ << <<row_cosines[1], column_cosines[1], n[1]>>,
                  <<row_cosines[2], column_cosines[2], n[2]>>,
                  <<row_cosines[3], column_cosines[3], n[3]>> >>
             : n \in {cross(column_cosines, row_cosines)} })

create_rotation_matrix(image_orientation) ==
    LET row_cosines == SubSeq(image_orientation, 1, 3)
        column_cosines == SubSeq(image_orientation, 4, 6)
    IN  Eval({ << <<row_cosines[1], column_cosines[1], n[1]>>,
                  <<row_cosines[2], column_cosines[2], n[2]>>,
                  <<row_cosines[3], column_cosines[3], n[3]>> >>
             : n \in {cross(row_cosines, column_cosines)} })

PlanarMsg == "not related by a simple planar rotation"
FlippedMsg == "image coordinate system is flipped"

\* mutant of compute_rotation: the flip is tested before the planarity
compute_rotation_flip_first(image_orientation, in_deg) ==
    Eval({ IF Lt(rotation[3][3], Zero)
           THEN Raise("ValueError", FlippedMsg)
           ELSE IF ~Eq(image_orientation[3], Zero) \/ ~Eq(image_orientation[6], Zero)
           THEN Raise("ValueError", PlanarMsg)
           ELSE LET angle == arctan2(Neg(rotation[1][2]), rotation[1][1])
                IN  IF in_deg THEN Ok(degrees(angle)) ELSE Ok(angle)
         : rotation \in {create_rotation_matrix(image_orientation)} })

\* mutant of compute_rotation: a degenerate normal is rejected as flipped
compute_rotation_rejects_zero(image_orientation, in_deg) ==
    IF ~Eq(image_orientation[3], Zero) \/ ~Eq(image_orientation[6], Zero)
    THEN Raise("ValueError", PlanarMsg)
    ELSE Eval({ IF ~Lt(Zero, rotation[3][3])
                THEN Raise("ValueError", FlippedMsg)
                ELSE LET angle == arctan2(Neg(rotation[1][2]), rotation[1][1])
                     IN  IF in_deg THEN Ok(degrees(angle)) ELSE Ok(angle)
              : rotation \in {create_rotation_matrix(image_orientation)} })

compute_rotation(image_orientation, in_deg) ==
    IF ~Eq(image_orientation[3], Zero) \/ ~Eq(image_orientation[6], Zero)
    THEN Raise("ValueError", PlanarMsg)
    ELSE Eval({ IF Lt(rotation[3][3], Zero)
                THEN Raise("ValueError", FlippedMsg)
                ELSE LET angle == arctan2(Neg(rotation[1][2]), rotation[1][1])
                     IN  IF in_deg THEN Ok(degrees(angle)) ELSE Ok(angle)
              : rotation \in {create_rotation_matrix(image_orientation)} })

\* mutant of scale_in_plane: each spacing scales the other direction
scale_in_plane_swapped(rotation, spacing) ==
    LET column_spacing == spacing[1]
        row_spacing == spacing[2]
    IN  Eval({ scale_column(r, 2, row_spacing)
             : r \in {scale_column(rotation, 1, column_spacing)} })

\* rotation[:, 0] *= row_spacing; rotation[:, 1] *= column_spacing
scale_in_plane(rotation, spacing) ==
    LET column_spacing == spacing[1]
        row_spacing == spacing[2]
    IN  Eval({ scale_column(r, 2, column_spacing)
             : r \in {scale_column(rotation, 1, row_spacing)} })

\* mutant of build_transform: the planarity test of compute_rotation is made
\* by the builder too
build_transform_planar_only(image_position, image_orientation, spacing) ==
    LET translation == image_position
    IN  IF ~Eq(image_orientation[3], Zero) \/ ~Eq(image_orientation[6], Zero)
        THEN Raise("ValueError", PlanarMsg)
        ELSE Eval({ Ok(stack_affine(scaled, translation))
                  : scaled \in { scale_in_plane(rotation, spacing)
                               : rotation \in {create_rotation_matrix(image_orientation)} } })

build_transform(image_position, image_orientation, spacing) ==
    LET translation == image_position
    IN  Eval({ Ok(stack_affine(scaled, translation))
             : scaled \in { scale_in_plane(rotation, spacing)
                          : rotation \in {create_rotation_matrix(image_orientation)} } })

\* mutant of build_inverse_transform: the translation is not negated
build_inverse_transform_positive_translation(image_position, image_orientation, spacing, slice_spacing) ==
    LET translation == image_position
    IN  Eval({ IF inv_rotation.kind # "ok" THEN inv_rotation
               ELSE Eval({ Ok(stack_affine(inv_rotation.value, t))
                         : t \in {dot(inv_rotation.value, translation)} })
             : inv_rotation \in
                 { inv(scaled)
                 : scaled \in
                     { scale_column(r, 3, slice_spacing)
                     : r \in { scale_in_plane(rotation, spacing)
                             : rotation \in {create_rotation_matrix(image_orientation)} } } } })

\* mutant of build_inverse_transform: the translation is the negated position
build_inverse_transform_raw_translation(image_position, image_orientation, spacing, slice_spacing) ==
    LET translation == image_position
    IN  Eval({ IF inv_rotation.kind # "ok" THEN inv_rotation
               ELSE Ok(stack_affine(inv_rotation.value,
                                    <<Neg(translation[1]), Neg(translation[2]),
                                      Neg(translation[3])>>))
             : inv_rotation \in
                 { inv(scaled)
                 : scaled \in
                     { scale_column(r, 3, slice_spacing)
                     : r \in { scale_in_plane(rotation, spacing)
                             : rotation \in {create_rotation_matrix(image_orientation)} } } } })

\* mutant of build_inverse_transform: the normal is not scaled by the
\* spacing between slices
build_inverse_transform_unscaled_normal(image_position, image_orientation, spacing, slice_spacing) ==
    LET translation == image_position
    IN  Eval({ IF inv_rotation.kind # "ok" THEN inv_rotation
               ELSE Eval({ Ok(stack_affine(inv_rotation.value,
                                           <<Neg(t[1]), Neg(t[2]), Neg(t[3])>>))
                         : t \in {dot(inv_rotation.value, translation)} })
             : inv_rotation \in
                 { inv(scaled)
                 : scaled \in { scale_in_plane(rotation, spacing)
                              : rotation \in {create_rotation_matrix(image_orientation)} } } })

build_inverse_transform(image_position, image_orientation, spacing, slice_spacing) ==
    LET translation == image_position
    IN  Eval({ IF inv_rotation.kind # "ok" THEN inv_rotation
               ELSE Eval({ Ok(stack_affine(inv_rotation.value,
                                           <<Neg(t[1]), Neg(t[2]), Neg(t[3])>>))
                         : t \in {dot(inv_rotation.value, translation)} })
             : inv_rotation \in
                 { inv(scaled)
                 : scaled \in
                     { scale_column(r, 3, slice_spacing)
                     : r \in { scale_in_plane(rotation, spacing)
                             : rotation \in {create_rotation_matrix(image_orientation)} } } } })

\* mutant of apply_transform: a third component given is used
apply_transform_uses_third(coord, M) ==
    IF Len(coord) < 2 THEN Raise("IndexError", "index out of range")
    ELSE LET column_offset == coord[1]
             row_offset == coord[2]
             z == IF Len(coord) > 2 THEN coord[3] ELSE Zero
             physical_coordinate == dot(M, <<column_offset, row_offset, z, One>>)
         IN  Ok(SubSeq(physical_coordinate, 1, 3))

apply_transform(coord, M) ==
    IF Len(coord) < 2 THEN Raise("IndexError", "index out of range")
    ELSE LET column_offset == coord[1]
             row_offset == coord[2]
             physical_coordinate == dot(M, <<column_offset, row_offset, Zero, One>>)
         IN  Ok(SubSeq(physical_coordinate, 1, 3))

apply_inverse_transform(coord, M) ==
    IF Len(coord) < 3 THEN Raise("IndexError", "index out of range")
    ELSE LET x == coord[1]
             y == coord[2]
             z == coord[3]
             pixel_matrix_coordinate == dot(M, <<x, y, z, One>>)
         IN  Ok(SubSeq(pixel_matrix_coordinate, 1, 3))

map_pixel_into_coordinate_system(coord, image_position, image_orientation, spacing) ==
    Eval({ apply_transform(coord, M.value)
         : M \in {build_transform(image_position, image_orientation, spacing)} })

map_coordinate_into_pixel_matrix(coord, image_position, image_orientation, spacing, slice_spacing) ==
    Eval({ IF M.kind # "ok" THEN M ELSE apply_inverse_transform(coord, M.value)
         : M \in {build_inverse_transform(image_position, image_orientation,
                                          spacing, slice_spacing)} })

\* ------------------------------------------------------------------ state
VARIABLES
    fn,                      \* the function last called ("none" before any call)
    coordinate,              \* its coordinate argument
    affine,                  \* its affine argument
    image_position,
    image_orientation,
    pixel_spacing,
    spacing_between_slices,
    in_degrees,
    ret,                     \* its outcome: a value returned or an exception
    pixel                    \* the pixel coordinate a mapped-back reference
                             \* coordinate was obtained from, <<>> otherwise

vars == <<fn, coordinate, affine, image_position, image_orientation,
          pixel_spacing, spacing_between_slices, in_degrees, ret, pixel>>

None == <<>>

\* ----------------------------------------------------------------- inputs
\* direction cosines of integer value, with both zeros
Cosines == {Num(-1), NegZero, Zero, One}
AllOrientations ==
    {<<a, b, c, d, e, f>> : a \in Cosines, b \in Cosines, c \in Cosines,
                            d \in Cosines, e \in Cosines, f \in Cosines}

\* directions for the transforms: the axes, the null vector, a non-unit
\* vector, and a unit vector that is not axis aligned with its normal
Directions ==
    { <<One, Zero, Zero>>, <<Zero, One, Zero>>, <<Zero, Zero, One>>,
      <<Num(-1), Zero, Zero>>, <<Zero, Zero, Zero>>, <<One, One, Zero>>,
      <<Frac(3, 5), Frac(4, 5), Zero>>, <<Frac(-4, 5), Frac(3, 5), Zero>> }
Orientations == {r \o c : r \in Directions, c \in Directions}

Positions ==
    { <<Num(10), Num(20), Num(30)>> }
    \cup { <<Num(-k), Num(2 * k), Num(3 * k)>> : k \in 1..MaxPos }

\* zero, negative, unit (the default spacing between slices) and larger
Spacings == {Num(k) : k \in -1..MaxSpacing}
PixelSpacings == {<<a, b>> : a \in Spacings, b \in Spacings} \cup {<<Num(2), Num(3)>>}

\* (Column, Row) coordinates and (X, Y, Z) coordinates given to the wrappers
Pixels == {<<Num(a), Num(b)>> : a \in 0..MaxCoord, b \in 0..MaxCoord}
RefPoints ==
    { <<Num(10), Num(20), Num(30)>>, <<Num(11), Num(22), Num(30)>> }
    \cup { <<Num(k), Num(-k), Num(2 * k)>> : k \in 1..MaxCoord }

CoordValues == {Num(k) : k \in -1..MaxCoord}
Coordinates2 == {<<a, b>> : a \in CoordValues, b \in CoordValues}
Coordinates3 == {<<a, b, c>> : a \in CoordValues, b \in CoordValues, c \in CoordValues}
Coordinates == Coordinates2 \cup Coordinates3

\* 4 x 4 matrices with sixteen different entries (not affine, so that every
\* entry and every padded component shows in the product), and the identity
Matrices ==
    { << <<Num(k + 1), Num(k + 2), Num(k + 3), Num(k + 4)>>,
         <<Num(k + 5), Num(k + 6), Num(k + 7), Num(k + 8)>>,
         <<Num(k + 9), Num(k + 10), Num(k + 11), Num(k + 12)>>,
         <<Num(k + 13), Num(k + 14), Num(k + 15), Num(k + 16)>> >> : k \in 0..MaxCoord }
    \cup { << <<One, Zero, Zero, Zero>>, <<Zero, One, Zero, Zero>>,
              <<Zero, Zero, One, Zero>>, <<Zero, Zero, Zero, One>> >> }

\* ------------------------------------------------------------------ actions
\* The functions keep no state: the outcome of a call depends on its arguments
\* alone, so every call is made from the initial state.
Init ==
    /\ fn = "none"
    /\ coordinate = None
    /\ affine = None
    /\ image_position = None
    /\ image_orientation = None
    /\ pixel_spacing = None
    /\ spacing_between_slices = None
    /\ in_degrees = FALSE
    /\ ret = NoCall
    /\ pixel = None

CreateRotationMatrix ==
    /\ fn = "none"
    /\ \E o \in AllOrientations \cup Orientations :
        /\ fn' = "create_rotation_matrix"
        /\ image_orientation' = o
        /\ ret' = Ok(create_rotation_matrix(o))
        /\ coordinate' = None /\ affine' = None /\ image_position' = None
        /\ pixel_spacing' = None /\ spacing_between_slices' = None
        /\ in_degrees' = FALSE /\ pixel' = None

ComputeRotation ==
    /\ fn = "none"
    /\ \E o \in AllOrientations, d \in BOOLEAN :
        /\ fn' = "compute_rotation"
        /\ image_orientation' = o
        /\ in_degrees' = d
        /\ ret' = compute_rotation(o, d)
        /\ coordinate' = None /\ affine' = None /\ image_position' = None
        /\ pixel_spacing' = None /\ spacing_between_slices' = None
        /\ pixel' = None

BuildTransform ==
    /\ fn = "none"
    /\ \E p \in Positions, o \in Orientations, ps \in PixelSpacings :
        /\ fn' = "build_transform"
        /\ image_position' = p
        /\ image_orientation' = o
        /\ pixel_spacing' = ps
        /\ ret' = build_transform(p, o, ps)
        /\ coordinate' = None /\ affine' = None
        /\ spacing_between_slices' = None
        /\ in_degrees' = FALSE /\ pixel' = None

BuildInverseTransform ==
    /\ fn = "none"
    /\ \E p \in Positions, o \in Orientations, ps \in PixelSpacings, s \in Spacings :
        /\ fn' = "build_inverse_transform"
        /\ image_position' = p
        /\ image_orientation' = o
        /\ pixel_spacing' = ps
        /\ spacing_between_slices' = s
        /\ ret' = build_inverse_transform(p, o, ps, s)
        /\ coordinate' = None /\ affine' = None
        /\ in_degrees' = FALSE /\ pixel' = None

ApplyTransform ==
    /\ fn = "none"
    /\ \E c \in Coordinates, M \in Matrices :
        /\ fn' = "apply_transform"
        /\ coordinate' = c
        /\ affine' = M
        /\ ret' = apply_transform(c, M)
        /\ image_position' = None /\ image_orientation' = None
        /\ pixel_spacing' = None /\ spacing_between_slices' = None
        /\ in_degrees' = FALSE /\ pixel' = None

ApplyInverseTransform ==
    /\ fn = "none"
    /\ \E c \in Coordinates, M \in Matrices :
        /\ fn' = "apply_inverse_transform"
        /\ coordinate' = c
        /\ affine' = M
        /\ ret' = apply_inverse_transform(c, M)
        /\ image_position' = None /\ image_orientation' = None
        /\ pixel_spacing' = None /\ spacing_between_slices' = None
        /\ in_degrees' = FALSE /\ pixel' = None

MapPixelIntoCoordinateSystem ==
    /\ fn = "none"
    /\ \E c \in Pixels, p \in Positions, o \in Orientations, ps \in PixelSpacings :
        /\ fn' = "map_pixel_into_coordinate_system"
        /\ coordinate' = c
        /\ image_position' = p
        /\ image_orientation' = o
        /\ pixel_spacing' = ps
        /\ ret' = map_pixel_into_coordinate_system(c, p, o, ps)
        /\ affine' = None /\ spacing_between_slices' = None
        /\ in_degrees' = FALSE /\ pixel' = None

MapCoordinateIntoPixelMatrix ==
    /\ fn = "none"
    /\ \E c \in RefPoints, p \in Positions, o \in Orientations,
       ps \in PixelSpacings, s \in Spacings :
        /\ fn' = "map_coordinate_into_pixel_matrix"
        /\ coordinate' = c
        /\ image_position' = p
        /\ image_orientation' = o
        /\ pixel_spacing' = ps
        /\ spacing_between_slices' = s
        /\ ret' = map_coordinate_into_pixel_matrix(c, p, o, ps, s)
        /\ affine' = None /\ in_degrees' = FALSE /\ pixel' = None

\* a caller maps the reference coordinate it has just obtained from a pixel
\* back into the pixel matrix of the same image
MapBack ==
    /\ fn = "map_pixel_into_coordinate_system"
    /\ ret.kind = "ok"
    /\ \E s \in Spacings :
        /\ fn' = "map_coordinate_into_pixel_matrix"
        /\ pixel' = coordinate
        /\ coordinate' = ret.value
        /\ spacing_between_slices' = s
        /\ ret' = map_coordinate_into_pixel_matrix(
                      ret.value, image_position, image_orientation,
                      pixel_spacing, s)
        /\ UNCHANGED <<image_position, image_orientation, pixel_spacing,
                       affine, in_degrees>>

Next ==
    \/ CreateRotationMatrix
    \/ ComputeRotation
    \/ BuildTransform
    \/ BuildInverseTransform
    \/ ApplyTransform
    \/ ApplyInverseTransform
    \/ MapPixelIntoCoordinateSystem
    \/ MapCoordinateIntoPixelMatrix
    \/ MapBack

Spec == Init /\ [][Next]_vars

\* ------------------------------------------------------------ properties
Dot3(u, v) == Add(Add(Mul(u[1], v[1]), Mul(u[2], v[2])), Mul(u[3], v[3]))
Minus3(u, v) == <<Sub(u[1], v[1]), Sub(u[2], v[2]), Sub(u[3], v[3])>>
RowOf(o) == SubSeq(o, 1, 3)
ColumnOf(o) == SubSeq(o, 4, 6)
NormalOf(o) == cross(RowOf(o), ColumnOf(o))

\* unit length and mutually orthogonal direction cosines
Orthonormal(o) ==
    /\ Eq(Dot3(RowOf(o), RowOf(o)), One)
    /\ Eq(Dot3(ColumnOf(o), ColumnOf(o)), One)
    /\ Eq(Dot3(RowOf(o), ColumnOf(o)), Zero)

\* row and column cosines are linearly dependent: their cross product is null
Dependent(o) == \A i \in 1..3 : IsZero(NormalOf(o)[i])

NonzeroSpacings ==
    /\ ~IsZero(pixel_spacing[1])
    /\ ~IsZero(pixel_spacing[2])
    /\ ~IsZero(spacing_between_slices)

PositiveSpacings ==
    /\ Lt(Zero, pixel_spacing[1])
    /\ Lt(Zero, pixel_spacing[2])
    /\ Lt(Zero, spacing_between_slices)

Identity4 ==
    << <<One, Zero, Zero, Zero>>, <<Zero, One, Zero, Zero>>,
       <<Zero, Zero, One, Zero>>, <<Zero, Zero, Zero, One>> >>

\* entry (i, j) of the product of two 4 x 4 matrices
ProductEntry(A, B, i, j) ==
    Add(Add(Add(Mul(A[i][1], B[1][j]), Mul(A[i][2], B[2][j])),
            Mul(A[i][3], B[3][j])), Mul(A[i][4], B[4][j]))

ProductIs(A, B, C) ==
    \A i \in 1..4, j \in 1..4 : Eq(ProductEntry(A, B, i, j), C[i][j])

Identity34 == <<One, Zero, Zero>> \o <<Zero, One, Zero>>
RotatedOrientation == <<Frac(3, 5), Frac(4, 5), Zero, Frac(-4, 5), Frac(3, 5), Zero>>

\* C1: round trip.  For an orthonormal orientation and nonzero spacings,
\* mapping a pixel (column, row) into the frame of reference and the result
\* back into the pixel matrix of the same image returns (column, row, 0).
C1_RoundTrip ==
    ( /\ fn = "map_coordinate_into_pixel_matrix"
      /\ pixel # None
      /\ Orthonormal(image_orientation)
      /\ NonzeroSpacings )
    => /\ ret.kind = "ok"
       /\ VecEq(ret.value, <<pixel[1], pixel[2], Zero>>)

C1_Witness ==
    /\ fn = "map_coordinate_into_pixel_matrix"
    /\ pixel = <<One, One>>
    /\ image_orientation = RotatedOrientation
    /\ image_position = <<Num(10), Num(20), Num(30)>>
    /\ pixel_spacing = <<Num(2), Num(3)>>
    /\ spacing_between_slices = Num(2)
    /\ ret.kind = "ok"
    /\ ~VecEq(coordinate, image_position)

\* C2: forward mapping.  Pixel (col, row) maps to
\* position + col * pixel_spacing[1] * row_cosines
\*          + row * pixel_spacing[0] * column_cosines;
\* pixel (0, 0) maps to the position, and position (10, 20, 30), orientation
\* (1, 0, 0, 0, 1, 0), pixel spacing (2, 3), pixel (1, 1) give (13, 22, 30).
C2_ForwardMapping ==
    fn = "map_pixel_into_coordinate_system"
    => /\ ret.kind = "ok"
       /\ \A i \in 1..3 :
            Eq(ret.value[i],
               Add(Add(image_position[i],
                       Mul(Mul(coordinate[1], pixel_spacing[2]),
                           RowOf(image_orientation)[i])),
                   Mul(Mul(coordinate[2], pixel_spacing[1]),
                       ColumnOf(image_orientation)[i])))
       /\ VecEq(coordinate, <<Zero, Zero>>) => VecEq(ret.value, image_position)
       /\ ( /\ image_position = <<Num(10), Num(20), Num(30)>>
            /\ image_orientation = Identity34
            /\ pixel_spacing = <<Num(2), Num(3)>>
            /\ coordinate = <<One, One>> )
          => VecEq(ret.value, <<Num(13), Num(22), Num(30)>>)

C2_Witness ==
    /\ fn = "map_pixel_into_coordinate_system"
    /\ image_position = <<Num(10), Num(20), Num(30)>>
    /\ image_orientation = Identity34
    /\ pixel_spacing = <<Num(2), Num(3)>>
    /\ coordinate = <<One, One>>
    /\ ret = Ok(<<Num(13), Num(22), Num(30)>>)

\* C3 as stated: for a non-degenerate orientation and nonzero spacings, the
\* forward matrix F and the inverse matrix G built from the same arguments
\* satisfy F.G = G.F = identity, whatever the spacing between slices.
C3_InversesForEverySliceSpacing ==
    ( /\ fn = "build_inverse_transform"
      /\ ~Dependent(image_orientation)
      /\ NonzeroSpacings )
    => /\ ret.kind = "ok"
       /\ \A F \in {build_transform(image_position, image_orientation,
                                    pixel_spacing).value} :
            /\ ProductIs(F, ret.value, Identity4)
            /\ ProductIs(ret.value, F, Identity4)

\* C3 amended: F.G = G.F = identity when the spacing between slices is 1;
\* for every nonzero spacing between slices s, G.F is the diagonal matrix
\* (1, 1, 1/s, 1).
C3_InversesUpToSliceSpacing ==
    ( /\ fn = "build_inverse_transform"
      /\ ~Dependent(image_orientation)
      /\ NonzeroSpacings )
    => /\ ret.kind = "ok"
       /\ \A F \in {build_transform(image_position, image_orientation,
                                    pixel_spacing).value} :
            /\ ProductIs(ret.value, F,
                         << <<One, Zero, Zero, Zero>>, <<Zero, One, Zero, Zero>>,
                            <<Zero, Zero, Div(One, spacing_between_slices), Zero>>,
                            <<Zero, Zero, Zero, One>> >>)
            /\ Eq(spacing_between_slices, One)
               => /\ ProductIs(F, ret.value, Identity4)
                  /\ ProductIs(ret.value, F, Identity4)

C3_Witness ==
    /\ fn = "build_inverse_transform"
    /\ image_orientation = <<One, One, Zero>> \o <<Num(-1), Zero, Zero>>
    /\ image_position = <<Num(10), Num(20), Num(30)>>
    /\ pixel_spacing = <<Num(2), Num(3)>>
    /\ spacing_between_slices = Num(2)
    /\ ret.kind = "ok"

\* C4: inverse at origin.  For a non-degenerate orientation and nonzero
\* spacings, the image position itself maps to (0, 0, 0).
C4_InverseAtOrigin ==
    ( /\ fn = "map_coordinate_into_pixel_matrix"
      /\ VecEq(coordinate, image_position)
      /\ ~Dependent(image_orientation)
      /\ NonzeroSpacings )
    => /\ ret.kind = "ok"
       /\ VecEq(ret.value, <<Zero, Zero, Zero>>)

C4_Witness ==
    /\ fn = "map_coordinate_into_pixel_matrix"
    /\ pixel = None
    /\ coordinate = <<Num(10), Num(20), Num(30)>>
    /\ image_position = coordinate
    /\ image_orientation = <<One, One, Zero>> \o <<Num(-1), Zero, Zero>>
    /\ pixel_spacing = <<Num(2), Num(-1)>>
    /\ spacing_between_slices = Num(2)
    /\ ret.kind = "ok"

\* C5: singular inverse.  build_inverse_transform raises the singular matrix
\* error, returning nothing, exactly when a spacing is zero or the row and
\* column cosines are linearly dependent; otherwise it returns a 4 x 4
\* matrix whose last row is (0, 0, 0, 1).
C5_SingularInverse ==
    fn = "build_inverse_transform"
    => IF ~NonzeroSpacings \/ Dependent(image_orientation)
       THEN ret = Raise("LinAlgError", "Singular matrix")
       ELSE /\ ret.kind = "ok"
            /\ Len(ret.value) = 4
            /\ \A i \in 1..4 : Len(ret.value[i]) = 4
            /\ VecEq(ret.value[4], <<Zero, Zero, Zero, One>>)

C5_Witness ==
    /\ fn = "build_inverse_transform"
    /\ image_orientation = Identity34
    /\ pixel_spacing = <<Zero, One>>
    /\ spacing_between_slices = One
    /\ ret.kind = "LinAlgError"

Planar(o) == Eq(o[3], Zero) /\ Eq(o[6], Zero)

\* z component of row x column
NormalZ(o) == Sub(Mul(o[1], o[5]), Mul(o[2], o[4]))

\* C6: planarity rejection.  compute_rotation raises the planar rotation
\* error for every orientation whose row or column z component is not 0,
\* whatever in_degrees; such an orientation is never reported as flipped and
\* never yields an angle.
C6_PlanarityRejection ==
    ( /\ fn = "compute_rotation"
      /\ ~Planar(image_orientation) )
    => ret = Raise("ValueError", PlanarMsg)

\* a non-planar orientation whose normal has a negative z component
C6_Witness ==
    /\ fn = "compute_rotation"
    /\ image_orientation = <<Zero, One, One, One, Zero, Zero>>
    /\ in_degrees
    /\ Lt(NormalOf(image_orientation)[3], Zero)
    /\ ret.kind = "ValueError"

\* C7: flip rejection.  For a planar orientation compute_rotation raises
\* exactly when the z component of row x column is negative; when it is
\* >= 0, zero included, an angle is returned.
C7_FlipRejection ==
    ( /\ fn = "compute_rotation"
      /\ Planar(image_orientation) )
    => IF Lt(NormalZ(image_orientation), Zero)
       THEN ret = Raise("ValueError", FlippedMsg)
       ELSE ret.kind = "ok"

\* the degenerate normal: row and column cosines are the same direction
C7_Witness ==
    /\ fn = "compute_rotation"
    /\ image_orientation = <<One, Zero, Zero, One, Zero, Zero>>
    /\ IsZero(NormalZ(image_orientation))
    /\ ret.kind = "ok"

Rotation0 == <<One, Zero, Zero, Zero, One, Zero>>
Rotation90 == <<Zero, One, Zero, Num(-1), Zero, Zero>>
Rotation180 == <<Num(-1), Zero, Zero, Zero, Num(-1), Zero>>
Rotation270 == <<Zero, Num(-1), Zero, One, Zero, Zero>>

\* C8: angle extraction.  For every accepted orientation the angle lies in
\* (-pi, pi] (in degrees: (-180, 180]); the four axis-aligned orientations
\* that are not flipped give 0, 90, 180 and -90 degrees.
C8_AngleExtraction ==
    ( /\ fn = "compute_rotation"
      /\ ret.kind = "ok" )
    => /\ IF in_degrees
          THEN Lt(Num(-180), ret.value) /\ ~Lt(Num(180), ret.value)
          ELSE Lt(Num(-4), ret.value) /\ ~Lt(Num(4), ret.value)
       /\ in_degrees =>
            /\ image_orientation = Rotation0 => Eq(ret.value, Zero)
            /\ image_orientation = Rotation90 => Eq(ret.value, Num(90))
            /\ image_orientation = Rotation180 => Eq(ret.value, Num(180))
            /\ image_orientation = Rotation270 => Eq(ret.value, Num(-90))

\* C9: slice coordinate.  For an orthonormal orientation (row r, column c,
\* normal n = r x c) and positive spacings, a reference point q maps to
\* ((q - position).r / pixel_spacing[1], (q - position).c / pixel_spacing[0],
\*  (q - position).n / spacing_between_slices); the third component is 0
\* exactly when q lies in the imaging plane.
C9_SliceCoordinate ==
    ( /\ fn = "map_coordinate_into_pixel_matrix"
      /\ Orthonormal(image_orientation)
      /\ PositiveSpacings )
    => /\ ret.kind = "ok"
       /\ \A q \in {Minus3(coordinate, image_position)} :
            /\ Eq(ret.value[1],
                  Div(Dot3(q, RowOf(image_orientation)), pixel_spacing[2]))
            /\ Eq(ret.value[2],
                  Div(Dot3(q, ColumnOf(image_orientation)), pixel_spacing[1]))
            /\ Eq(ret.value[3],
                  Div(Dot3(q, NormalOf(image_orientation)), spacing_between_slices))
            /\ IsZero(ret.value[3]) <=> IsZero(Dot3(q, NormalOf(image_orientation)))

\* a point two slices of spacing 2 away from the plane of a rotated image
C9_Witness ==
    /\ fn = "map_coordinate_into_pixel_matrix"
    /\ pixel = None
    /\ image_orientation = RotatedOrientation
    /\ image_position = <<Num(-1), Num(2), Num(3)>>
    /\ coordinate = <<Num(1), Num(-1), Num(2)>>
    /\ pixel_spacing = <<Num(2), Num(1)>>
    /\ spacing_between_slices = Num(2)
    /\ ret.kind = "ok"
    /\ Eq(ret.value[3], Frac(-1, 2))

\* the first three components of M times a homogeneous point
Homogeneous(M, v) == SubSeq(dot(M, v), 1, 3)

\* C10 as stated: both apply operations accept a 2-component point, padded
\* to (p0, p1, 0, 1), and a 3-component point, padded to (p0, p1, p2, 1), and
\* return the first three components of M times the padded point.
C10_DirectionAgnosticPadding ==
    fn \in {"apply_transform", "apply_inverse_transform"}
    => /\ ret.kind = "ok"
       /\ Len(coordinate) = 2 =>
            ret.value = Homogeneous(affine, <<coordinate[1], coordinate[2], Zero, One>>)
       /\ Len(coordinate) = 3 =>
            ret.value = Homogeneous(affine, <<coordinate[1], coordinate[2],
                                              coordinate[3], One>>)

\* C10 amended: apply_transform uses the first two components of its point
\* only, padded to (p0, p1, 0, 1), a third component being ignored;
\* apply_inverse_transform needs a 3-component point, padded to
\* (p0, p1, p2, 1), and raises IndexError on a 2-component point; each returns
\* the first three components of M times the padded point.
C10_PaddingPerDirection ==
    /\ fn = "apply_transform"
       => ret = Ok(Homogeneous(affine, <<coordinate[1], coordinate[2], Zero, One>>))
    /\ fn = "apply_inverse_transform"
       => IF Len(coordinate) = 3
          THEN ret = Ok(Homogeneous(affine, <<coordinate[1], coordinate[2],
                                              coordinate[3], One>>))
          ELSE ret.kind = "IndexError"

\* a 3-component point given to apply_transform, its third component lost
C10_Witness ==
    /\ fn = "apply_transform"
    /\ Len(coordinate) = 3
    /\ ~IsZero(coordinate[3])
    /\ affine # Identity4
    /\ ret.kind = "ok"
    /\ ret.value # Homogeneous(affine, <<coordinate[1], coordinate[2],
                                         coordinate[3], One>>)

\* column j of a matrix given as a sequence of rows
ColumnOfMatrix(M, j) == <<M[1][j], M[2][j], M[3][j]>>

\* C11: error kinds are confined to their paths.  create_rotation_matrix and
\* build_transform never fail, whatever the orientation (non-planar, flipped,
\* not orthogonal, linearly dependent) and the pixel spacing (zero, negative):
\* the first returns the 3 x 3 matrix of columns row, column, row x column,
\* the second a 4 x 4 matrix of last row (0, 0, 0, 1) whose normal column is
\* not scaled.  ValueError comes from compute_rotation alone, and
\* build_inverse_transform succeeds on a non-planar or flipped orientation
\* that is not singular.
C11_ErrorKindsConfined ==
    /\ fn = "create_rotation_matrix"
       => /\ ret.kind = "ok"
          /\ Len(ret.value) = 3
          /\ \A i \in 1..3 : Len(ret.value[i]) = 3
          /\ VecEq(ColumnOfMatrix(ret.value, 1), RowOf(image_orientation))
          /\ VecEq(ColumnOfMatrix(ret.value, 2), ColumnOf(image_orientation))
          /\ VecEq(ColumnOfMatrix(ret.value, 3), NormalOf(image_orientation))
    /\ fn = "build_transform"
       => /\ ret.kind = "ok"
          /\ Len(ret.value) = 4
          /\ \A i \in 1..4 : Len(ret.value[i]) = 4
          /\ VecEq(ret.value[4], <<Zero, Zero, Zero, One>>)
          /\ VecEq(ColumnOfMatrix(ret.value, 3), NormalOf(image_orientation))
    /\ ret.kind = "ValueError" => fn = "compute_rotation"
    /\ ( /\ fn = "build_inverse_transform"
         /\ ~Planar(image_orientation) \/ Lt(NormalZ(image_orientation), Zero)
         /\ ~Dependent(image_orientation)
         /\ NonzeroSpacings )
       => ret.kind = "ok"

\* build_transform on a non-planar orientation that is not orthogonal, with a
\* zero and a negative pixel spacing
C11_Witness ==
    /\ fn = "build_transform"
    /\ image_orientation = <<Zero, Zero, One>> \o <<One, One, Zero>>
    /\ ~Planar(image_orientation)
    /\ pixel_spacing = <<Zero, Num(-1)>>
    /\ ret.kind = "ok"
    /\ VecEq(ColumnOfMatrix(ret.value, 3), <<Num(-1), One, Zero>>)

====
